---- MODULE Spec2Model ----
\* A model of tinybit (src/src/lib.rs): the Endian trait's checked
\* (stream-based) and unchecked (raw-pointer) conversions and the in-place
\* byte-reversal primitives they share.
\*
\* A value is modelled by the bytes it occupies in memory, in the order of
\* their addresses (offset 0 first).  The host byte order (cfg target_endian)
\* is fixed for a whole behaviour.  The stream collaborator (io::Read /
\* io::Write) is modelled by its contract: one call transfers any number of
\* bytes up to the number offered/available, or fails with an io::Error.
EXTENDS Integers, Sequences, FiniteSets, TLC

VARIABLES host,     \* cfg(target_endian): "little" or "big"
          self,     \* bytes of the value (*self), by address; Len = size_of::<Self>()
          stream,   \* the Read/Write collaborator: content, cursor, calls made
          mem,      \* memory behind the raw pointer of the unchecked forms / transforms
          encS,     \* last checked encode: [op, ret, answer] or None
          encM,     \* last unchecked encode: [op, ret] or None
          decS,     \* last checked decode: [op, ret, answer, src] or None
          decM,     \* last unchecked decode: [op, ret, src] or None
          applied,  \* transforms applied directly to mem, in order
          swaps,    \* ptr::swap calls made by the last direct transform
          word      \* the unsigned integer self holds, when self is one

vars == <<host, self, stream, mem, encS, encM, decS, decM, applied, swaps, word>>

----------------------------------------------------------------------------
\* Bounds

MaxByte == 2      \* byte values range over 0..MaxByte
MaxSize == 4      \* size_of::<Self>() ranges over 0..MaxSize
MaxLen == 5       \* length of a buffer handed to a transform directly
MaxDigit == 4     \* bytes of the unsigned integers range over 1..MaxDigit
MaxApply == 2     \* transforms applied directly to one buffer

----------------------------------------------------------------------------
\* Data

Hosts == {"little", "big"}

Byte == 0..MaxByte

None == [op |-> "none"]

IoErrorKinds == {"Interrupted", "BrokenPipe"}

Min(a, b) == IF a < b THEN a ELSE b

SeqsUpTo(S, n) == UNION {[1..k -> S] : k \in 0..n}

\* Result<usize, io::Error> / Result<Self, io::Error>
OkCount(n) == [tag |-> "Ok", n |-> n]

OkValue(v) == [tag |-> "Ok", value |-> v]

Err(kind) == [tag |-> "Err", kind |-> kind]

\* mem::MaybeUninit::zeroed() / mem::zeroed(): size bytes, all zero
Zeroed(size) == [i \in 1..size |-> 0]

\* Default::default() of a zero-sized type: the only value, no bytes
DefaultZst == << >>

EmptyStream == [data |-> << >>, pos |-> 0, reads |-> 0, writes |-> 0]

----------------------------------------------------------------------------
\* The transform primitives

\* A swap that loses a byte: *a = *b without saving *a first
PtrSwapClobber(buf, i, j) == [buf EXCEPT ![i + 1] = buf[j + 1]]

\* ptr::swap(ptr.add(i), ptr.add(j)), offsets counted from 0
PtrSwap(buf, i, j) == [buf EXCEPT ![i + 1] = buf[j + 1], ![j + 1] = buf[i + 1]]

RECURSIVE SwapLoop(_, _, _, _)
\* for i in i..half_len { ptr::swap(ptr.add(i), ptr.add(len - i - 1)); }
SwapLoop(buf, len, i, half_len) ==
    IF i >= half_len
    THEN [buf |-> buf, swaps |-> 0]
    ELSE LET rest == SwapLoop(PtrSwap(buf, i, len - i - 1), len, i + 1, half_len)
         IN  [buf |-> rest.buf, swaps |-> rest.swaps + 1]

\* A flip whose half length is one short: (len - 1) / 2
FlipBytesShort(buf, len) ==
    LET half_len == (len - 1) \div 2
    IN  IF half_len > 0
        THEN SwapLoop(buf, len, 0, half_len)
        ELSE [buf |-> buf, swaps |-> 0]

\* let half_len = len / 2; if half_len > 0 { for i in 0..half_len { ... } }
FlipBytes(buf, len) ==
    LET half_len == len \div 2
    IN  IF half_len > 0
        THEN SwapLoop(buf, len, 0, half_len)
        ELSE [buf |-> buf, swaps |-> 0]

\* transform_le_bytes: nothing on a little-endian target, flip on a big-endian one
transform_le_bytes(h, buf, len) ==
    IF h = "big" THEN FlipBytes(buf, len) ELSE [buf |-> buf, swaps |-> 0]

\* transform_be_bytes without its little-endian block
transform_be_bytes_noop(h, buf, len) == [buf |-> buf, swaps |-> 0]

\* transform_be_bytes: return at once on a big-endian target, flip on a little-endian one
transform_be_bytes(h, buf, len) ==
    IF h = "big" THEN [buf |-> buf, swaps |-> 0] ELSE FlipBytes(buf, len)

----------------------------------------------------------------------------
\* The stream collaborator

\* What one write call offered the bytes of slice may answer
WriteOutcomes(slice) ==
    {OkCount(k) : k \in 0..Len(slice)} \cup {Err(e) : e \in IoErrorKinds}

\* What one read call into a buffer of want bytes may answer
ReadOutcomes(s, want) ==
    {OkCount(k) : k \in 0..Min(want, Len(s.data) - s.pos)}
        \cup {Err(e) : e \in IoErrorKinds}

\* buf.write(slice): the stream takes the first n bytes of slice, or fails
Write(s, slice, outcome) ==
    IF outcome.tag = "Err"
    THEN [res |-> outcome, stream |-> [s EXCEPT !.writes = @ + 1]]
    ELSE [res |-> outcome,
          stream |-> [s EXCEPT !.data = @ \o SubSeq(slice, 1, outcome.n),
                               !.writes = @ + 1]]

\* buf.read(slice): the stream fills the first n bytes of slice, or fails
Read(s, slice, outcome) ==
    IF outcome.tag = "Err"
    THEN [res |-> outcome, slice |-> slice, stream |-> [s EXCEPT !.reads = @ + 1]]
    ELSE [res |-> outcome,
          slice |-> [i \in 1..Len(slice) |->
                        IF i <= outcome.n THEN s.data[s.pos + i] ELSE slice[i]],
          stream |-> [s EXCEPT !.pos = @ + outcome.n, !.reads = @ + 1]]

----------------------------------------------------------------------------
\* The Endian trait: checked forms

\* to_le_bytes without the early return for a zero-sized type
to_le_bytes_no_zst(h, selfv, s, outcome) ==
    LET size == Len(selfv)
        tmp == transform_le_bytes(h, selfv, size).buf
        w == Write(s, tmp, outcome)
    IN  IF w.res.tag = "Err"
        THEN [ret |-> Err(w.res.kind), stream |-> w.stream]
        ELSE [ret |-> OkCount(w.res.n), stream |-> w.stream]

\* fn to_le_bytes<W: Write>(&self, buf: &mut W) -> Result<usize, io::Error>
\* slice aliases tmp: it is made before the transform and first read by
\* buf.write after it, so the stream is offered the transformed bytes.
to_le_bytes(h, selfv, s, outcome) ==
    LET size == Len(selfv)
    IN  IF size = 0
        THEN [ret |-> OkCount(0), stream |-> s]
        ELSE LET tmp == transform_le_bytes(h, selfv, size).buf
                 w == Write(s, tmp, outcome)
             IN  IF w.res.tag = "Err"
                 THEN [ret |-> Err(w.res.kind), stream |-> w.stream]
                 ELSE [ret |-> OkCount(w.res.n), stream |-> w.stream]

\* fn to_be_bytes<W: Write>(&self, buf: &mut W) -> Result<usize, io::Error>
to_be_bytes(h, selfv, s, outcome) ==
    LET size == Len(selfv)
    IN  IF size = 0
        THEN [ret |-> OkCount(0), stream |-> s]
        ELSE LET tmp == transform_be_bytes(h, selfv, size).buf
                 w == Write(s, tmp, outcome)
             IN  IF w.res.tag = "Err"
                 THEN [ret |-> Err(w.res.kind), stream |-> w.stream]
                 ELSE [ret |-> OkCount(w.res.n), stream |-> w.stream]

\* from_le_bytes without the comparison of the count read with size
from_le_bytes_partial(h, size, s, outcome) ==
    IF size = 0
    THEN [ret |-> OkValue(DefaultZst), stream |-> s]
    ELSE LET r == Read(s, Zeroed(size), outcome)
         IN  IF r.res.tag = "Err"
             THEN [ret |-> Err(r.res.kind), stream |-> r.stream]
             ELSE [ret |-> OkValue(transform_le_bytes(h, r.slice, size).buf),
                   stream |-> r.stream]

\* fn from_le_bytes<R: Read>(buf: &mut R) -> Result<Self, io::Error>
from_le_bytes(h, size, s, outcome) ==
    IF size = 0
    THEN [ret |-> OkValue(DefaultZst), stream |-> s]
    ELSE LET r == Read(s, Zeroed(size), outcome)
         IN  IF r.res.tag = "Err"
             THEN [ret |-> Err(r.res.kind), stream |-> r.stream]
             ELSE IF r.res.n < size
                  THEN [ret |-> Err("UnexpectedEof"), stream |-> r.stream]
                  ELSE [ret |-> OkValue(transform_le_bytes(h, r.slice, size).buf),
                        stream |-> r.stream]

\* from_be_bytes calling the little-endian transform
from_be_bytes_le_transform(h, size, s, outcome) ==
    IF size = 0
    THEN [ret |-> OkValue(Zeroed(0)), stream |-> s]
    ELSE LET r == Read(s, Zeroed(size), outcome)
         IN  IF r.res.tag = "Err"
             THEN [ret |-> Err(r.res.kind), stream |-> r.stream]
             ELSE IF r.res.n < size
                  THEN [ret |-> Err("UnexpectedEof"), stream |-> r.stream]
                  ELSE [ret |-> OkValue(transform_le_bytes(h, r.slice, size).buf),
                        stream |-> r.stream]

\* from_be_bytes reading once more after a short read, for what the source still holds
from_be_bytes_retry(h, size, s, outcome) ==
    IF size = 0
    THEN [ret |-> OkValue(Zeroed(0)), stream |-> s]
    ELSE LET r == Read(s, Zeroed(size), outcome)
         IN  IF r.res.tag = "Err"
             THEN [ret |-> Err(r.res.kind), stream |-> r.stream]
             ELSE IF r.res.n < size
                  THEN LET more == Min(size - r.res.n, Len(r.stream.data) - r.stream.pos)
                           r2 == Read(r.stream, Zeroed(size - r.res.n), OkCount(more))
                       IN  IF r.res.n + more < size
                           THEN [ret |-> Err("UnexpectedEof"), stream |-> r2.stream]
                           ELSE [ret |-> OkValue(transform_be_bytes(h,
                                            SubSeq(r.slice, 1, r.res.n) \o r2.slice, size).buf),
                                 stream |-> r2.stream]
                  ELSE [ret |-> OkValue(transform_be_bytes(h, r.slice, size).buf),
                        stream |-> r.stream]

\* fn from_be_bytes<R: Read>(buf: &mut R) -> Result<Self, io::Error>
from_be_bytes(h, size, s, outcome) ==
    IF size = 0
    THEN [ret |-> OkValue(Zeroed(0)), stream |-> s]
    ELSE LET r == Read(s, Zeroed(size), outcome)
         IN  IF r.res.tag = "Err"
             THEN [ret |-> Err(r.res.kind), stream |-> r.stream]
             ELSE IF r.res.n < size
                  THEN [ret |-> Err("UnexpectedEof"), stream |-> r.stream]
                  ELSE [ret |-> OkValue(transform_be_bytes(h, r.slice, size).buf),
                        stream |-> r.stream]

----------------------------------------------------------------------------
\* The Endian trait: unchecked forms

\* ptr::copy_nonoverlapping(src, dst, size)
CopyNonoverlapping(src, dst, size) ==
    [i \in 1..Len(dst) |-> IF i <= size THEN src[i] ELSE dst[i]]

\* unsafe fn to_le_bytes_unchecked(&self, out: *mut u8) -> usize
to_le_bytes_unchecked(h, selfv, out) ==
    LET size == Len(selfv)
    IN  IF size = 0
        THEN [ret |-> 0, mem |-> out]
        ELSE [ret |-> size,
              mem |-> transform_le_bytes(h, CopyNonoverlapping(selfv, out, size), size).buf]

\* to_be_bytes_unchecked without the transform of the destination
to_be_bytes_unchecked_no_transform(h, selfv, out) ==
    LET size == Len(selfv)
    IN  IF size = 0
        THEN [ret |-> 0, mem |-> out]
        ELSE [ret |-> size, mem |-> CopyNonoverlapping(selfv, out, size)]

\* unsafe fn to_be_bytes_unchecked(&self, out: *mut u8) -> usize
to_be_bytes_unchecked(h, selfv, out) ==
    LET size == Len(selfv)
    IN  IF size = 0
        THEN [ret |-> 0, mem |-> out]
        ELSE [ret |-> size,
              mem |-> transform_be_bytes(h, CopyNonoverlapping(selfv, out, size), size).buf]

\* unsafe fn from_le_bytes_unchecked(src: *const u8) -> Self
from_le_bytes_unchecked(h, size, src) ==
    IF size = 0
    THEN Zeroed(0)
    ELSE transform_le_bytes(h, CopyNonoverlapping(src, Zeroed(size), size), size).buf

\* unsafe fn from_be_bytes_unchecked(src: *const u8) -> Self
from_be_bytes_unchecked(h, size, src) ==
    IF size = 0
    THEN Zeroed(0)
    ELSE transform_be_bytes(h, CopyNonoverlapping(src, Zeroed(size), size), size).buf

----------------------------------------------------------------------------
\* Actions: one call of one operation.  Encodes come before decodes; each of
\* the four kinds of call (checked/unchecked, encode/decode) happens at most
\* once in a behaviour.  answer is what the stream answers to a call made on
\* it during the operation (a stream that fails answers Err whenever called).

NoDecodeYet == decS = None /\ decM = None /\ applied = << >>

\* The bytes a read of up to size bytes answering outcome hands over
Yielded(s, outcome) ==
    IF outcome.tag = "Err" THEN << >> ELSE SubSeq(s.data, s.pos + 1, s.pos + outcome.n)

ToLeBytes ==
    /\ encS = None /\ NoDecodeYet
    /\ \E outcome \in WriteOutcomes(self) :
          LET r == to_le_bytes(host, self, stream, outcome)
          IN  /\ encS' = [op |-> "to_le_bytes", ret |-> r.ret, answer |-> outcome]
              /\ stream' = r.stream
    /\ UNCHANGED <<host, self, mem, encM, decS, decM, applied, swaps, word>>

ToBeBytes ==
    /\ encS = None /\ NoDecodeYet
    /\ \E outcome \in WriteOutcomes(self) :
          LET r == to_be_bytes(host, self, stream, outcome)
          IN  /\ encS' = [op |-> "to_be_bytes", ret |-> r.ret, answer |-> outcome]
              /\ stream' = r.stream
    /\ UNCHANGED <<host, self, mem, encM, decS, decM, applied, swaps, word>>

ToLeBytesUnchecked ==
    /\ encM = None /\ NoDecodeYet
    /\ LET r == to_le_bytes_unchecked(host, self, mem)
       IN  /\ encM' = [op |-> "to_le_bytes_unchecked", ret |-> r.ret]
           /\ mem' = r.mem
    /\ UNCHANGED <<host, self, stream, encS, decS, decM, applied, swaps, word>>

ToBeBytesUnchecked ==
    /\ encM = None /\ NoDecodeYet
    /\ LET r == to_be_bytes_unchecked(host, self, mem)
       IN  /\ encM' = [op |-> "to_be_bytes_unchecked", ret |-> r.ret]
           /\ mem' = r.mem
    /\ UNCHANGED <<host, self, stream, encS, decS, decM, applied, swaps, word>>

FromLeBytes ==
    /\ decS = None /\ applied = << >>
    /\ \E outcome \in ReadOutcomes(stream, Len(self)) :
          LET r == from_le_bytes(host, Len(self), stream, outcome)
          IN  /\ decS' = [op |-> "from_le_bytes", ret |-> r.ret, answer |-> outcome,
                          src |-> Yielded(stream, outcome)]
              /\ stream' = r.stream
    /\ UNCHANGED <<host, self, mem, encS, encM, decM, applied, swaps, word>>

FromBeBytes ==
    /\ decS = None /\ applied = << >>
    /\ \E outcome \in ReadOutcomes(stream, Len(self)) :
          LET r == from_be_bytes(host, Len(self), stream, outcome)
          IN  /\ decS' = [op |-> "from_be_bytes", ret |-> r.ret, answer |-> outcome,
                          src |-> Yielded(stream, outcome)]
              /\ stream' = r.stream
    /\ UNCHANGED <<host, self, mem, encS, encM, decM, applied, swaps, word>>

FromLeBytesUnchecked ==
    /\ decM = None /\ applied = << >>
    /\ decM' = [op |-> "from_le_bytes_unchecked",
                ret |-> from_le_bytes_unchecked(host, Len(self), mem),
                src |-> mem]
    /\ UNCHANGED <<host, self, stream, mem, encS, encM, decS, applied, swaps, word>>

FromBeBytesUnchecked ==
    /\ decM = None /\ applied = << >>
    /\ decM' = [op |-> "from_be_bytes_unchecked",
                ret |-> from_be_bytes_unchecked(host, Len(self), mem),
                src |-> mem]
    /\ UNCHANGED <<host, self, stream, mem, encS, encM, decS, applied, swaps, word>>

\* transform_le_bytes(ptr, len) on the whole of mem
TransformLe ==
    /\ Len(applied) < MaxApply
    /\ LET t == transform_le_bytes(host, mem, Len(mem))
       IN  /\ mem' = t.buf
           /\ swaps' = t.swaps
    /\ applied' = Append(applied, "le")
    /\ UNCHANGED <<host, self, stream, encS, encM, decS, decM, word>>

\* transform_be_bytes(ptr, len) on the whole of mem
TransformBe ==
    /\ Len(applied) < MaxApply
    /\ LET t == transform_be_bytes(host, mem, Len(mem))
       IN  /\ mem' = t.buf
           /\ swaps' = t.swaps
    /\ applied' = Append(applied, "be")
    /\ UNCHANGED <<host, self, stream, encS, encM, decS, decM, word>>

----------------------------------------------------------------------------
\* Specifications

NoCalls ==
    /\ encS = None /\ encM = None /\ decS = None /\ decM = None
    /\ applied = << >> /\ swaps = 0

\* Any value of any size, an empty stream, zeroed memory of the value's size
Init ==
    /\ host \in Hosts
    /\ self \in SeqsUpTo(Byte, MaxSize)
    /\ stream = EmptyStream
    /\ mem = Zeroed(Len(self))
    /\ word = 0
    /\ NoCalls

Next ==
    \/ ToLeBytes
    \/ ToBeBytes
    \/ ToLeBytesUnchecked
    \/ ToBeBytesUnchecked
    \/ FromLeBytes
    \/ FromBeBytes
    \/ FromLeBytesUnchecked
    \/ FromBeBytesUnchecked

Spec == Init /\ [][Next]_vars

\* A buffer handed to the transforms directly
InitTransform ==
    /\ host \in Hosts
    /\ self \in SeqsUpTo(Byte, MaxLen)
    /\ stream = EmptyStream
    /\ mem = self
    /\ word = 0
    /\ NoCalls

NextTransform ==
    \/ TransformLe
    \/ TransformBe

SpecTransform == InitTransform /\ [][NextTransform]_vars

RECURSIVE Pow256(_)
Pow256(n) == IF n = 0 THEN 1 ELSE 256 * Pow256(n - 1)

\* The byte of significance 256^k of the unsigned integer v
ByteOf(v, k) == (v \div Pow256(k)) % 256

\* let mut tmp = *self; &mut tmp as *mut u8: the bytes of an n-byte unsigned
\* integer v as the host keeps them in memory
NativeBytes(h, v, n) ==
    [i \in 1..n |-> IF h = "little" THEN ByteOf(v, i - 1) ELSE ByteOf(v, n - i)]

RECURSIVE WordOf(_, _)
\* The unsigned integer whose bytes, most significant first, are digits
WordOf(digits, n) ==
    IF n = 0 THEN 0 ELSE 256 * WordOf(digits, n - 1) + digits[n]

\* size_of::<u16>() and size_of::<u32>()
WordSizes == {2, 4}

\* self is a multi-byte unsigned integer, a u16 or a u32
InitWord ==
    /\ host \in Hosts
    /\ \E n \in WordSizes : \E digits \in [1..n -> 1..MaxDigit] :
          /\ word = WordOf(digits, n)
          /\ self = NativeBytes(host, WordOf(digits, n), n)
    /\ stream = EmptyStream
    /\ mem = Zeroed(Len(self))
    /\ NoCalls

NextWord ==
    \/ ToLeBytes
    \/ ToBeBytes
    \/ ToLeBytesUnchecked
    \/ ToBeBytesUnchecked

SpecWord == InitWord /\ [][NextWord]_vars

----------------------------------------------------------------------------
\* Properties

Size == Len(self)

\* The decode that reads the byte order the encode op writes
DecodeOf(op) == IF op = "to_le_bytes" THEN "from_le_bytes" ELSE "from_be_bytes"

\* The stream took all the bytes of the checked encode
AcceptedAll == encS # None /\ encS.answer = OkCount(Size)

\* The stream handed the checked decode all the bytes it asked for
YieldedAll == decS # None /\ decS.answer = OkCount(Size)

\* C1 (round trip): for a value of size 1..MaxSize and either byte order, on
\* either host, when to_le_bytes (to_be_bytes) wrote to a stream that took
\* all the bytes and from_le_bytes (from_be_bytes) then read them all back,
\* the decode succeeds with a value whose bytes are those of the original.
RoundTrip ==
    (/\ Size >= 1
     /\ AcceptedAll
     /\ YieldedAll
     /\ decS.op = DecodeOf(encS.op))
        => decS.ret = OkValue(self)

\* A round trip in an order the host has to flip, of a value that flipping changes
RoundTripWitness ==
    /\ Size >= 2
    /\ self[1] # self[Size]
    /\ host = "little"
    /\ AcceptedAll
    /\ encS.op = "to_be_bytes"
    /\ YieldedAll
    /\ decS.op = "from_be_bytes"
    /\ decS.ret = OkValue(self)

\* C2 (order correctness): on either host, to_be_bytes of a multi-byte
\* unsigned integer hands the stream its bytes most significant first and
\* to_le_bytes least significant first; 0x01020304 gives 01 02 03 04 in
\* big-endian and 04 03 02 01 in little-endian.
OrderCorrect ==
    AcceptedAll =>
        /\ encS.op = "to_be_bytes" =>
              /\ \A i \in 1..Size : stream.data[i] = ByteOf(word, Size - i)
              /\ (word = 16909060 /\ Size = 4) => stream.data = <<1, 2, 3, 4>>
        /\ encS.op = "to_le_bytes" =>
              /\ \A i \in 1..Size : stream.data[i] = ByteOf(word, i - 1)
              /\ (word = 16909060 /\ Size = 4) => stream.data = <<4, 3, 2, 1>>

\* 0x01020304 written big-endian by a little-endian host
OrderCorrectWitness ==
    /\ word = 16909060
    /\ Size = 4
    /\ host = "little"
    /\ AcceptedAll
    /\ encS.op = "to_be_bytes"
    /\ stream.data = <<1, 2, 3, 4>>

\* C3 (end-of-stream detection): when the read of a checked decode of a value
\* of size N > 0 hands over k < N bytes, the decode fails and the failure
\* carries the count k.
EofCarriesCount ==
    (/\ decS # None
     /\ Size > 0
     /\ decS.answer.tag = "Ok"
     /\ decS.answer.n < Size)
        => /\ decS.ret.tag = "Err"
           /\ "n" \in DOMAIN decS.ret
           /\ decS.ret.n = decS.answer.n

\* C4 (size fidelity of encoding): whenever a checked encode succeeds, the
\* count it returns and the number of bytes the stream took are exactly the
\* value's size, whatever the stream does.
EncodeSizeFidelity ==
    (encS # None /\ encS.ret.tag = "Ok")
        => /\ encS.ret.n = Size
           /\ Len(stream.data) = Size

\* C5 (size fidelity of decoding): a checked decode of a value of size N > 0
\* either succeeds with a value of N bytes having consumed exactly N bytes of
\* the source, or fails and returns no value.
DecodeSizeFidelity ==
    (decS # None /\ Size > 0)
        => \/ /\ decS.ret.tag = "Ok"
              /\ Len(decS.ret.value) = Size
              /\ Len(decS.src) = Size
              /\ stream.pos = Size
           \/ /\ decS.ret.tag = "Err"
              /\ "value" \notin DOMAIN decS.ret

\* A decode that failed after a short read, and one that succeeded
DecodeSizeFidelityWitness ==
    /\ decS # None
    /\ Size >= 2
    /\ decS.answer.tag = "Ok"
    /\ decS.answer.n = Size - 1
    /\ decS.ret.tag = "Err"

\* C6 (zero-size identity): for a value of size 0 every encode reports 0
\* bytes, every decode returns the default instance, nothing fails, and no
\* call leaves a trace on the stream or the memory: no read, no write, no
\* byte moved, whatever the stream would answer if it were called.
ZeroSizeIdentity ==
    Size = 0 =>
        /\ stream = EmptyStream
        /\ mem = << >>
        /\ encS # None => encS.ret = OkCount(0)
        /\ encM # None => encM.ret = 0
        /\ decS # None => decS.ret = OkValue(DefaultZst)
        /\ decM # None => decM.ret = DefaultZst

\* All four kinds of call made on a zero-sized value, over a failing stream
ZeroSizeIdentityWitness ==
    /\ Size = 0
    /\ encS # None /\ encS.answer.tag = "Err"
    /\ encM # None
    /\ decS # None /\ decS.answer.tag = "Err"
    /\ decM # None

\* C7 (unchecked/checked equivalence): an unchecked encode into memory of the
\* value's size leaves the bytes, and returns the count, that the checked
\* encode of the same order gives a stream that takes them all; an unchecked
\* decode of N bytes returns the value the checked decode of the same order
\* returns when its stream hands over those N bytes.
UncheckedMatchesChecked ==
    /\ (/\ AcceptedAll
        /\ encM # None
        /\ encM.op = IF encS.op = "to_le_bytes" THEN "to_le_bytes_unchecked"
                                                ELSE "to_be_bytes_unchecked")
          => /\ mem = stream.data
             /\ encM.ret = encS.ret.n
    /\ (/\ YieldedAll
        /\ decM # None
        /\ decM.op = IF decS.op = "from_le_bytes" THEN "from_le_bytes_unchecked"
                                                  ELSE "from_be_bytes_unchecked"
        /\ decM.src = decS.src)
          => decS.ret = OkValue(decM.ret)

\* Both forms of both directions, in an order the host has to flip
UncheckedMatchesCheckedWitness ==
    /\ Size >= 2
    /\ self[1] # self[Size]
    /\ host = "little"
    /\ AcceptedAll /\ encS.op = "to_be_bytes"
    /\ encM # None /\ encM.op = "to_be_bytes_unchecked"
    /\ YieldedAll /\ decS.op = "from_be_bytes"
    /\ decM # None /\ decM.op = "from_be_bytes_unchecked"
    /\ decM.src = decS.src

\* C8 (self-inverse): transform_le_bytes applied twice, or transform_be_bytes
\* applied twice, to a buffer of any length 0..MaxLen restores its bytes.
TwiceRestores ==
    (applied = <<"le", "le">> \/ applied = <<"be", "be">>) => mem = self

\* Two flips of a buffer that one flip changes
TwiceRestoresWitness ==
    /\ applied = <<"le", "le">>
    /\ host = "big"
    /\ Len(self) >= 3
    /\ self[1] # self[Len(self)]
    /\ mem = self

\* The transform named t flips on host h
Flips(t, h) == (t = "le" /\ h = "big") \/ (t = "be" /\ h = "little")

\* C9 (host-conditional transform): transform_le_bytes leaves the buffer as
\* it is on a little-endian host and reverses it on a big-endian one,
\* transform_be_bytes the other way round; a reversal moves the byte at
\* offset i to offset len-1-i in len/2 swaps, so a buffer of length 0 or 1 is
\* unchanged and the middle byte of an odd-length one stays.
HostConditional ==
    Len(applied) = 1 =>
        LET len == Len(self)
        IN  /\ Len(mem) = len
            /\ IF Flips(applied[1], host)
               THEN /\ \A i \in 0..(len - 1) : mem[(len - 1 - i) + 1] = self[i + 1]
                    /\ swaps = len \div 2
               ELSE /\ mem = self
                    /\ swaps = 0
            /\ len <= 1 => mem = self
            /\ len % 2 = 1 => mem[(len \div 2) + 1] = self[(len \div 2) + 1]

\* A flip that changes a three-byte buffer and keeps its middle byte
HostConditionalWitness ==
    /\ applied = <<"be">>
    /\ host = "little"
    /\ Len(self) = 3
    /\ self[1] # self[3]
    /\ mem = <<self[3], self[2], self[1]>>
    /\ swaps = 1

\* C10 (no retry, failures surfaced unchanged): a checked operation on a
\* value of size N > 0 calls the stream exactly once; a failure the stream
\* reports is the failure the operation returns; a read of k < N bytes makes
\* the decode fail at once, with no second read, even if the source holds
\* more bytes.
SingleCall ==
    /\ (encS # None /\ Size > 0) =>
          /\ stream.writes = 1
          /\ encS.answer.tag = "Err" => encS.ret = encS.answer
    /\ (decS # None /\ Size > 0) =>
          /\ stream.reads = 1
          /\ decS.answer.tag = "Err" => decS.ret = decS.answer
          /\ (decS.answer.tag = "Ok" /\ decS.answer.n < Size) =>
                decS.ret = Err("UnexpectedEof")
    /\ encS = None => stream.writes = 0
    /\ decS = None => stream.reads = 0

\* A short read from a source that still holds the rest of the bytes
SingleCallWitness ==
    /\ Size >= 2
    /\ decS # None
    /\ decS.answer.tag = "Ok"
    /\ decS.answer.n < Size
    /\ Len(stream.data) - stream.pos >= Size - decS.answer.n
    /\ stream.reads = 1
    /\ decS.ret = Err("UnexpectedEof")

====
